---- MODULE Spec2Model ----
(***************************************************************************)
(* Seekable stream ciphers built on the ASCON, Keccak and ChaCha           *)
(* permutations (src/src/ascon.rs, src/src/keccak.rs, src/src/chacha.rs).  *)
(*                                                                         *)
(* Machine words are modelled bit for bit.  A u64 (a state lane, a byte    *)
(* offset, a block index) is the set of the positions of its one bits, a   *)
(* subset of 0..63 with bit 0 the least significant; a u32 is a subset of  *)
(* 0..31.  A byte is an integer in 0..255 and a buffer a sequence of       *)
(* bytes.  usize buffer lengths are ordinary integers.                     *)
(***************************************************************************)
EXTENDS Integers, Sequences, FiniteSets, TLC

\* let y = e in F(y): e is evaluated once and F sees its value
Bind(e, F(_)) == CHOOSE r \in {F(y) : y \in {e}} : TRUE

Min(a, b) == IF a < b THEN a ELSE b

\* the sequence with the elements of the function f on 1 .. n
Tuple(f) == Bind(f, LAMBDA g : SubSeq(g, 1, Len(g)))

(***************************************************************************)
(* Word primitives of core: ^, &, !, rotate_right, rotate_left,            *)
(* to_le_bytes, from_le_bytes, wrapping_add, checked_add, / and %.         *)
(***************************************************************************)
W64 == 0 .. 63
W32 == 0 .. 31

\* ^, & and ! on u64
Xor64(a, b) == Bind(<< a, b >>, LAMBDA p : (p[1] \ p[2]) \cup (p[2] \ p[1]))
And64(a, b) == a \cap b
Not64(a) == W64 \ a
\* rotate_right(r): bit i of the operand becomes bit (i - r) mod 64
RotR64(a, r) == {(i + 64 - r) % 64 : i \in a}
\* rotate_left(r): bit i of the operand becomes bit (i + r) mod 64
RotL64(a, r) == {(i + r) % 64 : i \in a}

\* ^ and rotate_left on u32
Xor32(a, b) == Bind(<< a, b >>, LAMBDA p : (p[1] \ p[2]) \cup (p[2] \ p[1]))
RotL32(a, r) == {(i + r) % 32 : i \in a}

Bit(a, i) == IF i \in a THEN 1 ELSE 0

\* the integer value of the 8 bits of word a starting at bit position lo
Field8(a, lo) ==
    Bind(a, LAMBDA w :
        Bit(w, lo) + 2 * Bit(w, lo + 1) + 4 * Bit(w, lo + 2) + 8 * Bit(w, lo + 3)
        + 16 * Bit(w, lo + 4) + 32 * Bit(w, lo + 5) + 64 * Bit(w, lo + 6)
        + 128 * Bit(w, lo + 7))

\* the integer value of the 16 bits of word a starting at bit position lo
Field16(a, lo) == Bind(a, LAMBDA w : Field8(w, lo) + 256 * Field8(w, lo + 8))

\* byte k (0-based) of to_le_bytes of a word
LeByte(a, k) == Field8(a, 8 * k)

\* u64::to_le_bytes: 8 bytes, least significant first
ToLeBytes64(a) ==
    Bind(a, LAMBDA w :
        << LeByte(w, 0), LeByte(w, 1), LeByte(w, 2), LeByte(w, 3),
           LeByte(w, 4), LeByte(w, 5), LeByte(w, 6), LeByte(w, 7) >>)

\* u64::from_le_bytes of an 8-byte sequence
FromLeBytes64(b) ==
    Bind(b, LAMBDA s : {i \in W64 : (s[(i \div 8) + 1] \div (2 ^ (i % 8))) % 2 = 1})

\* u32::to_le_bytes and u32::from_le_bytes
ToLeBytes32(a) ==
    Bind(a, LAMBDA w : << LeByte(w, 0), LeByte(w, 1), LeByte(w, 2), LeByte(w, 3) >>)
FromLeBytes32(b) ==
    Bind(b, LAMBDA s : {i \in W32 : (s[(i \div 8) + 1] \div (2 ^ (i % 8))) % 2 = 1})

\* a word from 16-bit limbs, least significant first (four for a u64, two
\* for a u32), and the four limbs of a u64
FromLimbs(l) ==
    Bind(l, LAMBDA s :
        {i \in 0 .. 16 * Len(s) - 1 : (s[(i \div 16) + 1] \div (2 ^ (i % 16))) % 2 = 1})
ToLimbs(a) ==
    Bind(a, LAMBDA w : << Field16(w, 0), Field16(w, 16), Field16(w, 32), Field16(w, 48) >>)

\* the literal 0xh3h2h1h0 given as its four 16-bit groups, most significant first
Hex64(h3, h2, h1, h0) == FromLimbs(<< h0, h1, h2, h3 >>)
\* the literal 0xh1h0 given as its two 16-bit groups, most significant first
Hex32(h1, h0) == FromLimbs(<< h0, h1 >>)

\* a small non-negative integer (a usize below 2^30) as u64
U64(n) == Bind(n, LAMBDA m : FromLimbs(<< m % 65536, m \div 65536, 0, 0 >>))
\* u64::MAX - n for a small n: the bitwise complement of n
MaxMinus(n) == Not64(U64(n))
U64MAX == MaxMinus(0)

\* u8 ^ u8
XorByte(x, y) ==
    Bind(<< x, y >>, LAMBDA p :
        LET b(i) == ((p[1] \div (2 ^ i)) + (p[2] \div (2 ^ i))) % 2
        IN  b(0) + 2 * b(1) + 4 * b(2) + 8 * b(3) + 16 * b(4) + 32 * b(5)
            + 64 * b(6) + 128 * b(7))

\* the sum of two u64 over their 16-bit limbs: the four limbs of the sum
\* modulo 2^64, and the carry out of the top limb
AddLimbs(a, b) ==
    Bind(<< ToLimbs(a), ToLimbs(b) >>, LAMBDA p :
        LET x  == p[1]
            y  == p[2]
            s0 == x[1] + y[1]
            s1 == x[2] + y[2] + (s0 \div 65536)
            s2 == x[3] + y[3] + (s1 \div 65536)
            s3 == x[4] + y[4] + (s2 \div 65536)
        IN  [ limbs |-> << s0 % 65536, s1 % 65536, s2 % 65536, s3 % 65536 >>,
              carry |-> s3 \div 65536 ])

\* u64::wrapping_add: the carry out of bit 63 is dropped
WrappingAdd64(a, b) ==
    Bind(AddLimbs(a, b), LAMBDA s : [ sum |-> FromLimbs(s.limbs), none |-> FALSE ])

\* an addition that also rejects a sum of exactly u64::MAX
CheckedAddExclusive(a, b) ==
    Bind(AddLimbs(a, b), LAMBDA s :
        [ sum  |-> FromLimbs(s.limbs),
          none |-> s.carry > 0 \/ s.limbs = << 65535, 65535, 65535, 65535 >> ])

\* u64::checked_add: the sum, and whether the true sum left the 64-bit
\* range (the result is None)
CheckedAdd(a, b) ==
    Bind(AddLimbs(a, b), LAMBDA s : [ sum |-> FromLimbs(s.limbs), none |-> s.carry > 0 ])

\* u64 / d and u64 % d for a small divisor d (long division over the limbs)
DivMod(a, d) ==
    Bind(ToLimbs(a), LAMBDA x :
        LET q3 == x[4] \div d
            r3 == x[4] % d
            n2 == r3 * 65536 + x[3]
            q2 == n2 \div d
            r2 == n2 % d
            n1 == r2 * 65536 + x[2]
            q1 == n1 \div d
            r1 == n1 % d
            n0 == r1 * 65536 + x[1]
            q0 == n0 \div d
            r0 == n0 % d
        IN  [ quot |-> FromLimbs(<< q0, q1, q2, q3 >>), rem |-> r0 ])

\* u32::wrapping_add
WrappingAdd32(a, b) ==
    Bind(<< Field16(a, 0) + Field16(b, 0), Field16(a, 16) + Field16(b, 16) >>, LAMBDA s :
        FromLimbs(<< s[1] % 65536, (s[2] + (s[1] \div 65536)) % 65536 >>))

\* a high half that is dropped
NoHighHalf(a) == {}
\* u64 as u32 (truncation) and (u64 >> 32) as u32
LowHalf(a) == a \cap W32
HighHalf(a) == {i - 32 : i \in a \ W32}

(***************************************************************************)
(* The ASCON permutation (ascon.rs, round / permute / permute_r).  A state *)
(* is the tuple <<st[0], ..., st[4]>>; Rust index i is TLA+ index i + 1.   *)
(***************************************************************************)
AsconRKS ==
    << U64(\hf0), U64(\he1), U64(\hd2), U64(\hc3), U64(\hb4), U64(\ha5),
       U64(\h96), U64(\h87), U64(\h78), U64(\h69), U64(\h5a), U64(\h4b) >>

\* x[2] ^= rk; x[0] ^= x[4]; x[4] ^= x[3]; x[2] ^= x[1]
AsconAddConstant(x, rk) ==
    Bind(x, LAMBDA s :
        << Xor64(s[1], s[5]), s[2], Xor64(Xor64(s[3], rk), s[2]), s[4], Xor64(s[5], s[4]) >>)

\* let mut t = [x[i] ^ (!x[i + 1] & x[i + 2])]; t[1] ^= t[0]; t[3] ^= t[2]; t[0] ^= t[4]
AsconSubstitution(x) ==
    Bind(x, LAMBDA s :
        Bind(<< Xor64(s[1], And64(Not64(s[2]), s[3])), Xor64(s[2], And64(Not64(s[3]), s[4])),
                Xor64(s[3], And64(Not64(s[4]), s[5])), Xor64(s[4], And64(Not64(s[5]), s[1])),
                Xor64(s[5], And64(Not64(s[1]), s[2])) >>, LAMBDA t :
            << Xor64(t[1], t[5]), Xor64(t[2], t[1]), t[3], Xor64(t[4], t[3]), t[5] >>))

\* x[i] = t[i] ^ t[i].rotate_right(r1 - r0); x[i] = t[i] ^ x[i].rotate_right(r0)
AsconDiffuse(t, r0, r1) ==
    Bind(t, LAMBDA w : Xor64(w, RotR64(Xor64(w, RotR64(w, r1 - r0)), r0)))

\* the ten rotation lines of round, and x[2] = !x[2]
AsconLinear(t) ==
    Bind(t, LAMBDA s :
        << AsconDiffuse(s[1], 19, 28), AsconDiffuse(s[2], 39, 61),
           Not64(AsconDiffuse(s[3], 1, 6)), AsconDiffuse(s[4], 10, 17),
           AsconDiffuse(s[5], 7, 41) >>)

AsconRound(x, rk) == AsconLinear(AsconSubstitution(AsconAddConstant(x, rk)))

RECURSIVE AsconRoundsOf(_, _, _)
\* the set holding the state after rounds from .. to on the state held in s
AsconRoundsOf(s, from, to) ==
    IF from > to THEN s
    ELSE {AsconRound(y, AsconRKS[to]) : y \in AsconRoundsOf(s, from, to - 1)}

\* for &rk in &RKS[from - 1 .. to] { round(rk) }
AsconRounds(x, from, to) == CHOOSE y \in AsconRoundsOf({x}, from, to) : TRUE

\* permute: all of RKS
AsconPermute(x) == AsconRounds(x, 1, 12)
\* a squeeze permutation that runs every round of RKS
AsconPermuteAll(x) == AsconRounds(x, 1, 12)
\* permute_r: RKS[0..8]
AsconPermuteR(x) == AsconRounds(x, 1, 8)

(***************************************************************************)
(* keccak::p1600(&mut st, 12) (keccak.rs, permute): Keccak-p[1600, 12],    *)
(* the last 12 rounds of Keccak-f[1600].  Lane (x, y) is st[x + 5y].       *)
(***************************************************************************)
KeccakRC ==
    << Hex64(\h0000, \h0000, \h8000, \h808b), Hex64(\h8000, \h0000, \h0000, \h008b),
       Hex64(\h8000, \h0000, \h0000, \h8089), Hex64(\h8000, \h0000, \h0000, \h8003),
       Hex64(\h8000, \h0000, \h0000, \h8002), Hex64(\h8000, \h0000, \h0000, \h0080),
       Hex64(\h0000, \h0000, \h0000, \h800a), Hex64(\h8000, \h0000, \h8000, \h000a),
       Hex64(\h8000, \h0000, \h8000, \h8081), Hex64(\h8000, \h0000, \h0000, \h8080),
       Hex64(\h0000, \h0000, \h8000, \h0001), Hex64(\h8000, \h0000, \h8000, \h8008) >>

KeccakRHO ==
    << 1, 3, 6, 10, 15, 21, 28, 36, 45, 55, 2, 14, 27, 41, 56, 8, 25, 43, 62,
       18, 39, 61, 20, 44 >>
KeccakPI ==
    << 10, 7, 11, 17, 18, 3, 5, 16, 8, 21, 24, 4, 15, 23, 19, 13, 12, 2, 20,
       14, 22, 9, 6, 1 >>

\* the parity of column x (0-based) of the state
KeccakColumn(a, x) ==
    Bind(a, LAMBDA s :
        {i \in W64 : (Bit(s[x + 1], i) + Bit(s[x + 6], i) + Bit(s[x + 11], i)
                      + Bit(s[x + 16], i) + Bit(s[x + 21], i)) % 2 = 1})

\* theta: every lane is XORed with the parities of two neighbouring columns
KeccakTheta(a) ==
    Bind(a, LAMBDA s :
        Bind(<< KeccakColumn(s, 0), KeccakColumn(s, 1), KeccakColumn(s, 2),
                KeccakColumn(s, 3), KeccakColumn(s, 4) >>, LAMBDA c :
            Bind(<< Xor64(c[5], RotL64(c[2], 1)), Xor64(c[1], RotL64(c[3], 1)),
                    Xor64(c[2], RotL64(c[4], 1)), Xor64(c[3], RotL64(c[5], 1)),
                    Xor64(c[4], RotL64(c[1], 1)) >>, LAMBDA d :
                << Xor64(s[1], d[1]), Xor64(s[2], d[2]), Xor64(s[3], d[3]),
                   Xor64(s[4], d[4]), Xor64(s[5], d[5]), Xor64(s[6], d[1]),
                   Xor64(s[7], d[2]), Xor64(s[8], d[3]), Xor64(s[9], d[4]),
                   Xor64(s[10], d[5]), Xor64(s[11], d[1]), Xor64(s[12], d[2]),
                   Xor64(s[13], d[3]), Xor64(s[14], d[4]), Xor64(s[15], d[5]),
                   Xor64(s[16], d[1]), Xor64(s[17], d[2]), Xor64(s[18], d[3]),
                   Xor64(s[19], d[4]), Xor64(s[20], d[5]), Xor64(s[21], d[1]),
                   Xor64(s[22], d[2]), Xor64(s[23], d[3]), Xor64(s[24], d[4]),
                   Xor64(s[25], d[5]) >>)))

\* the step t (1..24) of the rho-pi chain that writes lane i (0-based, not 0)
KeccakPiStep(i) == CHOOSE t \in 1 .. 24 : KeccakPI[t] = i
\* the lane (0-based) that step t of the chain reads
KeccakPiSource(t) == IF t = 1 THEN 1 ELSE KeccakPI[t - 1]

\* rho and pi: state[PI[t]] = old(source of step t).rotate_left(RHO[t])
KeccakRhoPiLane(a, i) ==
    IF i = 0 THEN a[1]
    ELSE Bind(KeccakPiStep(i), LAMBDA t : RotL64(a[KeccakPiSource(t) + 1], KeccakRHO[t]))

KeccakRhoPi(a) ==
    Bind(a, LAMBDA s :
        << KeccakRhoPiLane(s, 0), KeccakRhoPiLane(s, 1), KeccakRhoPiLane(s, 2),
           KeccakRhoPiLane(s, 3), KeccakRhoPiLane(s, 4), KeccakRhoPiLane(s, 5),
           KeccakRhoPiLane(s, 6), KeccakRhoPiLane(s, 7), KeccakRhoPiLane(s, 8),
           KeccakRhoPiLane(s, 9), KeccakRhoPiLane(s, 10), KeccakRhoPiLane(s, 11),
           KeccakRhoPiLane(s, 12), KeccakRhoPiLane(s, 13), KeccakRhoPiLane(s, 14),
           KeccakRhoPiLane(s, 15), KeccakRhoPiLane(s, 16), KeccakRhoPiLane(s, 17),
           KeccakRhoPiLane(s, 18), KeccakRhoPiLane(s, 19), KeccakRhoPiLane(s, 20),
           KeccakRhoPiLane(s, 21), KeccakRhoPiLane(s, 22), KeccakRhoPiLane(s, 23),
           KeccakRhoPiLane(s, 24) >>)

\* chi on lane i (0-based): a[i] ^ (!a[next in row] & a[next but one in row])
KeccakChiLane(a, i) ==
    Xor64(a[i + 1],
          And64(Not64(a[5 * (i \div 5) + ((i + 1) % 5) + 1]),
                a[5 * (i \div 5) + ((i + 2) % 5) + 1]))

KeccakChi(a) ==
    Bind(a, LAMBDA s :
        << KeccakChiLane(s, 0), KeccakChiLane(s, 1), KeccakChiLane(s, 2),
           KeccakChiLane(s, 3), KeccakChiLane(s, 4), KeccakChiLane(s, 5),
           KeccakChiLane(s, 6), KeccakChiLane(s, 7), KeccakChiLane(s, 8),
           KeccakChiLane(s, 9), KeccakChiLane(s, 10), KeccakChiLane(s, 11),
           KeccakChiLane(s, 12), KeccakChiLane(s, 13), KeccakChiLane(s, 14),
           KeccakChiLane(s, 15), KeccakChiLane(s, 16), KeccakChiLane(s, 17),
           KeccakChiLane(s, 18), KeccakChiLane(s, 19), KeccakChiLane(s, 20),
           KeccakChiLane(s, 21), KeccakChiLane(s, 22), KeccakChiLane(s, 23),
           KeccakChiLane(s, 24) >>)

\* iota
KeccakIota(a, rc) == [a EXCEPT ![1] = Xor64(@, rc)]

KeccakRound(a, rc) == KeccakIota(KeccakChi(KeccakRhoPi(KeccakTheta(a))), rc)

RECURSIVE KeccakRoundsOf(_, _, _)
\* the set holding the state after rounds from .. to on the state held in s
KeccakRoundsOf(s, from, to) ==
    IF from > to THEN s
    ELSE {KeccakRound(b, KeccakRC[to]) : b \in KeccakRoundsOf(s, from, to - 1)}

\* for rc in RC[from - 1 .. to] { round }
KeccakRounds(a, from, to) == CHOOSE b \in KeccakRoundsOf({a}, from, to) : TRUE

\* permute: keccak::p1600(&mut self.st, 12)
KeccakPermute(a) == KeccakRounds(a, 1, 12)

(***************************************************************************)
(* The ChaCha permutation with feed-forward (chacha.rs, permute).  A state *)
(* is the tuple of the sixteen u32 words.                                  *)
(***************************************************************************)
\* x[a] = x[a].wrapping_add(x[b]); x[d] = (x[d] ^ x[a]).rotate_left(r)
ChaChaStep(x, a, b, d, r) ==
    Bind(x, LAMBDA s :
        Bind(WrappingAdd32(s[a + 1], s[b + 1]), LAMBDA sum :
            [s EXCEPT ![a + 1] = sum, ![d + 1] = RotL32(Xor32(@, sum), r)]))

\* one block { const R = [a, b, c, d]; ... } of permute (0-based indices)
ChaChaQuarter(x, a, b, c, d) ==
    CHOOSE q \in
        {ChaChaStep(s4, c, d, b, 7) : s4 \in
            {ChaChaStep(s3, a, b, d, 8) : s3 \in
                {ChaChaStep(s2, c, d, b, 12) : s2 \in
                    {ChaChaStep(s1, a, b, d, 16) : s1 \in {x}}}}} : TRUE

\* the body of the loop of permute: four column and four diagonal blocks
ChaChaColumns(x) ==
    CHOOSE y \in
        {ChaChaQuarter(q4, 3, 7, 11, 15) : q4 \in
            {ChaChaQuarter(q3, 2, 6, 10, 14) : q3 \in
                {ChaChaQuarter(q2, 1, 5, 9, 13) : q2 \in
                    {ChaChaQuarter(q1, 0, 4, 8, 12) : q1 \in {x}}}}} : TRUE
ChaChaDiagonals(x) ==
    CHOOSE y \in
        {ChaChaQuarter(q4, 3, 4, 9, 14) : q4 \in
            {ChaChaQuarter(q3, 2, 7, 8, 13) : q3 \in
                {ChaChaQuarter(q2, 1, 6, 11, 12) : q2 \in
                    {ChaChaQuarter(q1, 0, 5, 10, 15) : q1 \in {x}}}}} : TRUE
ChaChaDoubleRound(x) == ChaChaDiagonals(ChaChaColumns(x))

RECURSIVE ChaChaLoopOf(_, _)
\* the set holding the state after n double rounds on the state held in s
ChaChaLoopOf(s, n) ==
    IF n = 0 THEN s ELSE {ChaChaDoubleRound(y) : y \in ChaChaLoopOf(s, n - 1)}

\* for _ in 0..n { double round }
ChaChaLoop(x, n) == CHOOSE y \in ChaChaLoopOf({x}, n) : TRUE

\* for i in 0..16 { x[i] = x[i].wrapping_add(mask[i]) }
ChaChaFeedForward(x, mask) ==
    Bind(<< x, mask >>, LAMBDA p :
        Tuple([i \in 1 .. 16 |-> WrappingAdd32(p[1][i], p[2][i])]))

\* permute: 12 / 2 double rounds, then the feed-forward of the input state
ChaChaPermute(x) == Bind(x, LAMBDA mask : ChaChaFeedForward(ChaChaLoop(mask, 12 \div 2), mask))

(***************************************************************************)
(* Slices and buffers                                                      *)
(***************************************************************************)
\* [0u8; n]
Zeros(n) == Tuple([i \in 1 .. n |-> 0])

\* s[lo..] (lo is the 0-based start)
SliceFrom(s, lo) == Bind(s, LAMBDA t : SubSeq(t, lo + 1, Len(t)))
\* s[lo..][..n]: in bounds iff lo <= len and n <= len - lo; otherwise the
\* slice expression panics
SliceInBounds(s, lo, n) == Bind(Len(s), LAMBDA len : lo <= len /\ n <= len - lo)
Slice(s, lo, n) == SubSeq(s, lo + 1, lo + n)

(***************************************************************************)
(* Setup: StreamCipher::new.  The result is [panicked, st]: panicked is    *)
(* TRUE when an index or slice expression of new is out of bounds (the     *)
(* call unwinds and there is no instance), and then st is <<>>.            *)
(***************************************************************************)
KEY_LENGTH == 32
NoState == << >>
Panic == [panicked |-> TRUE, st |-> NoState]
Built(st) == [panicked |-> FALSE, st |-> st]

\* the padding marker written after the context bytes
PadMarker == 128

\* a padding that leaves the marker out
PadWithZeros(ctx, n) ==
    Bind(ctx, LAMBDA c : Tuple([i \in 1 .. n |-> IF i <= Len(c) THEN c[i] ELSE 0]))

\* let mut buf = [0u8; n]; buf[..len].copy_from_slice(ctx); buf[len] = 0x80;
\* the index buf[len] is in bounds iff len < n
PadIndexInBounds(ctx, n) == Len(ctx) < n
Pad(ctx, n) ==
    Bind(ctx, LAMBDA c :
        Tuple([i \in 1 .. n |-> IF i <= Len(c) THEN c[i]
                                ELSE IF i = Len(c) + 1 THEN PadMarker ELSE 0]))
\* let mut buf = [0u8; n]; buf[..len].copy_from_slice(ctx);   (no marker)
ZeroExtend(ctx, n) ==
    Bind(ctx, LAMBDA c : Tuple([i \in 1 .. n |-> IF i <= Len(c) THEN c[i] ELSE 0]))

\* st[0..4] ^= the four little-endian u64 of the key
XorKey(st, key) ==
    Bind(key, LAMBDA k :
        [st EXCEPT ![1] = Xor64(@, FromLeBytes64(Slice(k, 0, 8))),
                   ![2] = Xor64(@, FromLeBytes64(Slice(k, 8, 8))),
                   ![3] = Xor64(@, FromLeBytes64(Slice(k, 16, 8))),
                   ![4] = Xor64(@, FromLeBytes64(Slice(k, 24, 8)))])

(************************** ascon.rs: new **********************************)
AsconInitialState ==
    << Hex64(\hb57e, \h273b, \h814c, \hd416), Hex64(\h2b51, \h0425, \h62ae, \h2420),
       Hex64(\h66a3, \ha776, \h8ddf, \h2218), Hex64(\h5aad, \h0a7a, \h8153, \h650c),
       Hex64(\h4f3e, \h0e32, \h5394, \h93b6) >>

\* the first context part and the padded short context go into st[4]
AsconAbsorb8(st, buf) == [st EXCEPT ![5] = Xor64(@, FromLeBytes64(buf))]
\* a 16-byte part goes into st[3] and st[4]
AsconAbsorb16(st, buf) ==
    Bind(buf, LAMBDA b :
        [st EXCEPT ![4] = Xor64(@, FromLeBytes64(Slice(b, 0, 8))),
                   ![5] = Xor64(@, FromLeBytes64(Slice(b, 8, 8)))])

RECURSIVE AsconAbsorbLoop(_, _)
\* while context.len() > 16 { absorb context[..16]; permute }
AsconAbsorbLoop(st, context) ==
    Bind(context, LAMBDA c :
        IF Len(c) > 16
        THEN AsconAbsorbLoop(AsconPermute(AsconAbsorb16(st, Slice(c, 0, 16))),
                             SliceFrom(c, 16))
        ELSE [st |-> st, context |-> c])

\* a short branch that permutes the keyed state before the context goes in
AsconNewWhitened(key, context) ==
    IF ~PadIndexInBounds(context, 8) THEN Panic
    ELSE Built(XorKey(AsconPermute(AsconAbsorb8(AsconPermute(XorKey(AsconInitialState, key)),
                                                Pad(context, 8))), key))

\* the branch of new for context.len() < 8
AsconNewShort(key, context) ==
    IF ~PadIndexInBounds(context, 8) THEN Panic
    ELSE Built(XorKey(AsconPermute(AsconAbsorb8(XorKey(AsconInitialState, key),
                                                Pad(context, 8))), key))

\* the branch of new for context.len() >= 8
AsconNewLong(key, context) ==
    Bind(AsconAbsorbLoop(
             AsconPermute(AsconAbsorb8(XorKey(AsconInitialState, key),
                                       ZeroExtend(Slice(context, 0, 8), 8))),
             SliceFrom(context, 8)), LAMBDA loop :
        IF ~PadIndexInBounds(loop.context, 16) THEN Panic
        ELSE Built(XorKey(AsconPermute(AsconAbsorb16(loop.st, Pad(loop.context, 16))), key)))

AsconNew(key, context) ==
    Bind(<< key, context >>, LAMBDA p :
        IF Len(p[2]) < 8 THEN AsconNewShort(p[1], p[2]) ELSE AsconNewLong(p[1], p[2]))

(************************** keccak.rs: new *********************************)
KeccakInitialState ==
    << Hex64(\h243f, \h6a88, \h85a3, \h08d3), Hex64(\h1319, \h8a2e, \h0370, \h7344),
       Hex64(\ha409, \h3822, \h299f, \h31d0), Hex64(\h082e, \hfa98, \hec4e, \h6c89),
       Hex64(\h4528, \h21e6, \h38d0, \h1377), Hex64(\hbe54, \h66cf, \h34e9, \h0c6c),
       Hex64(\hc0ac, \h29b7, \hc97c, \h50dd), Hex64(\h3f84, \hd5b5, \hb547, \h0917),
       Hex64(\h9216, \hd5d9, \h8979, \hfb1b), Hex64(\hd131, \h0ba6, \h98df, \hb5ac),
       Hex64(\h2ffd, \h72db, \hd01a, \hdfb7), Hex64(\hb8e1, \hafed, \h6a26, \h7e96),
       Hex64(\hba7c, \h9045, \hf12c, \h7f99), Hex64(\h24a1, \h9947, \hb391, \h6cf7),
       Hex64(\h0801, \hf2e2, \h858e, \hfc16), Hex64(\h6369, \h20d8, \h7157, \h4e69),
       Hex64(\ha458, \hfea3, \hf493, \h3d7e), Hex64(\h0d95, \h748f, \h728e, \hb658),
       Hex64(\h718b, \hcd58, \h8215, \h4aee), Hex64(\h7b54, \ha41d, \hc25a, \h59b5),
       Hex64(\h9c30, \hd539, \h2af2, \h6013), Hex64(\hc5d1, \hb023, \h2860, \h85f0),
       Hex64(\hca41, \h7918, \hb8db, \h38ef), Hex64(\h8e79, \hdcb0, \h603a, \h180e),
       Hex64(\h6c9e, \h0e8b, \hb01e, \h8a3e) >>

\* for i in 0..n { st[first + i] ^= from_le_bytes(buf[i * 8..][0..8]) }:
\* every slice buf[i * 8..][0..8] of the loop must be in bounds
KeccakXorLanesInBounds(buf, n) ==
    Bind(buf, LAMBDA b : \A i \in 0 .. n - 1 : SliceInBounds(b, i * 8, 8))
KeccakXorLanes(st, first, n, buf) ==
    Bind(<< st, buf >>, LAMBDA p :
        Tuple([j \in 1 .. 25 |->
                  IF j - 1 >= first /\ j - 1 < first + n
                  THEN Xor64(p[1][j], FromLeBytes64(Slice(p[2], (j - 1 - first) * 8, 8)))
                  ELSE p[1][j]]))

\* one block of new: XOR n lanes of the 168-byte buf from st[first] on, then
\* permute; the block panics when a lane slice is out of bounds
KeccakAbsorb(st, first, n, buf) ==
    Bind(buf, LAMBDA b :
        IF ~KeccakXorLanesInBounds(b, n) THEN Panic
        ELSE Built(KeccakPermute(KeccakXorLanes(st, first, n, b))))

RECURSIVE KeccakAbsorbLoop(_, _)
\* while context.len() > 168 { for i in 0..25 { st[i] ^= lane i of the
\* 168-byte buf }; permute }
KeccakAbsorbLoop(st, context) ==
    Bind(context, LAMBDA c :
        IF Len(c) > 168
        THEN Bind(KeccakAbsorb(st, 0, 25, ZeroExtend(Slice(c, 0, 168), 168)), LAMBDA r :
                 IF r.panicked THEN [panicked |-> TRUE, st |-> NoState, context |-> c]
                 ELSE KeccakAbsorbLoop(r.st, SliceFrom(c, 168)))
        ELSE [panicked |-> FALSE, st |-> st, context |-> c])

\* the branch of new for context.len() < 168
KeccakNewShort(key, context) ==
    IF ~PadIndexInBounds(context, 168) THEN Panic
    ELSE Bind(KeccakAbsorb(XorKey(KeccakInitialState, key), 4, 25 - 4, Pad(context, 168)),
              LAMBDA r : IF r.panicked THEN Panic ELSE Built(XorKey(r.st, key)))

\* the branch of new for context.len() >= 168
KeccakNewLong(key, context) ==
    Bind(KeccakAbsorb(XorKey(KeccakInitialState, key), 4, 25 - 4,
                      ZeroExtend(Slice(context, 0, 168), 168)), LAMBDA first :
        IF first.panicked THEN Panic
        ELSE Bind(KeccakAbsorbLoop(first.st, SliceFrom(context, 168)), LAMBDA loop :
                 IF loop.panicked THEN Panic
                 ELSE Bind(KeccakAbsorb(loop.st, 0, 25, ZeroExtend(loop.context, 168)),
                           LAMBDA r : IF r.panicked THEN Panic
                                      ELSE Built(XorKey(r.st, key)))))

KeccakNew(key, context) ==
    Bind(<< key, context >>, LAMBDA p :
        IF Len(p[2]) < 168 THEN KeccakNewShort(p[1], p[2]) ELSE KeccakNewLong(p[1], p[2]))

(************************** chacha.rs: new *********************************)
ChaChaCONSTANTS ==
    << Hex32(\h6170, \h7865), Hex32(\h3320, \h646e), Hex32(\h7962, \h2d32),
       Hex32(\h6b20, \h6574) >>

ChaChaNew(key, id) ==
    Bind(<< key, id >>, LAMBDA p :
        Built(<< ChaChaCONSTANTS[1], ChaChaCONSTANTS[2], ChaChaCONSTANTS[3],
                 ChaChaCONSTANTS[4],
                 FromLeBytes32(Slice(p[1], 0, 4)), FromLeBytes32(Slice(p[1], 4, 4)),
                 FromLeBytes32(Slice(p[1], 8, 4)), FromLeBytes32(Slice(p[1], 12, 4)),
                 FromLeBytes32(Slice(p[1], 16, 4)), FromLeBytes32(Slice(p[1], 20, 4)),
                 FromLeBytes32(Slice(p[1], 24, 4)), FromLeBytes32(Slice(p[1], 28, 4)),
                 {}, {},
                 FromLeBytes32(Slice(p[2], 0, 4)), FromLeBytes32(Slice(p[2], 4, 4)) >>))

(***************************************************************************)
(* new as the sequence of the statements it executes on the state (ascon   *)
(* and keccak).  A step is a record [op, first, lanes, buf, len, marker]:  *)
(*   "key"      st[0..4] ^= key                                            *)
(*   "chunk"    the buf XORed into st[first .. first + lanes]; buf holds   *)
(*              len context bytes, and marker tells whether buf[len] =     *)
(*              0x80 was executed                                          *)
(*   "permute"  state.permute()                                            *)
(*   "panic"    an index or slice out of bounds: new unwinds and returns   *)
(*              no instance                                                *)
(***************************************************************************)
Step(op, first, lanes, buf, len, marker) ==
    [op |-> op, first |-> first, lanes |-> lanes, buf |-> buf, len |-> len,
     marker |-> marker]
KeyStep == Step("key", 0, 4, << >>, 0, FALSE)
PermuteStep == Step("permute", 0, 0, << >>, 0, FALSE)
PanicStep == Step("panic", 0, 0, << >>, 0, FALSE)
\* a part of the context copied into a zeroed buf, without a marker
RawChunk(first, lanes, part, n) == Step("chunk", first, lanes, ZeroExtend(part, n), Len(part), FALSE)
\* the rest of the context copied into a zeroed buf, then buf[len] = 0x80
PaddedChunk(first, lanes, rest, n) == Step("chunk", first, lanes, Pad(rest, n), Len(rest), TRUE)

RECURSIVE AsconLoopSteps(_)
\* ascon.rs: the while loop over 16-byte parts and the statements after it
AsconLoopSteps(context) ==
    Bind(context, LAMBDA c :
        IF Len(c) > 16
        THEN << RawChunk(3, 2, Slice(c, 0, 16), 16), PermuteStep >>
                 \o AsconLoopSteps(SliceFrom(c, 16))
        ELSE IF ~PadIndexInBounds(c, 16) THEN << PanicStep >>
        ELSE << PaddedChunk(3, 2, c, 16), PermuteStep, KeyStep >>)

\* ascon.rs: the statements of new
AsconSteps(context) ==
    Bind(context, LAMBDA c :
        IF Len(c) < 8
        THEN << KeyStep, PaddedChunk(4, 1, c, 8), PermuteStep, KeyStep >>
        ELSE << KeyStep, RawChunk(4, 1, Slice(c, 0, 8), 8), PermuteStep >>
                 \o AsconLoopSteps(SliceFrom(c, 8)))

\* keccak.rs: one XOR loop over n lanes of a 168-byte buf and the permute
\* after it; the loop panics on the first lane slice out of bounds, and the
\* lanes it XORed before that are lost with the state
KeccakChunkSteps(first, n, chunk) ==
    IF ~KeccakXorLanesInBounds(chunk.buf, n) THEN << PanicStep >>
    ELSE << chunk, PermuteStep >>

\* steps, and then the steps more unless steps ended in a panic
Then(steps, more) ==
    Bind(steps, LAMBDA s : IF s[Len(s)].op = "panic" THEN s ELSE s \o more)

RECURSIVE KeccakLoopSteps(_)
\* keccak.rs: the while loop over 168-byte parts and the statements after it
KeccakLoopSteps(context) ==
    Bind(context, LAMBDA c :
        IF Len(c) > 168
        THEN Bind(KeccakChunkSteps(0, 25, RawChunk(0, 25, Slice(c, 0, 168), 168)), LAMBDA s :
                 IF s[Len(s)].op = "panic" THEN s
                 ELSE s \o KeccakLoopSteps(SliceFrom(c, 168)))
        ELSE Then(KeccakChunkSteps(0, 25, RawChunk(0, 25, c, 168)), << KeyStep >>))

\* keccak.rs: the statements of new
KeccakSteps(context) ==
    Bind(context, LAMBDA c :
        IF Len(c) < 168
        THEN IF ~PadIndexInBounds(c, 168) THEN << KeyStep, PanicStep >>
             ELSE << KeyStep >>
                      \o Then(KeccakChunkSteps(4, 25 - 4, PaddedChunk(4, 25 - 4, c, 168)),
                              << KeyStep >>)
        ELSE << KeyStep >>
                 \o Then(KeccakChunkSteps(4, 25 - 4, RawChunk(4, 25 - 4, Slice(c, 0, 168), 168)),
                         KeccakLoopSteps(SliceFrom(c, 168))))

\* the statements of new of the module named by v
NewSteps(v, context) ==
    CASE v = "ascon" -> AsconSteps(context) [] v = "keccak" -> KeccakSteps(context)

\* the state after one step
ApplyStep(v, key, x, step) ==
    CASE step.op = "key" -> XorKey(x, key)
      [] step.op = "permute" -> IF v = "ascon" THEN AsconPermute(x) ELSE KeccakPermute(x)
      [] step.op = "panic" -> NoState
      [] step.op = "chunk" ->
           IF v = "keccak" THEN KeccakXorLanes(x, step.first, step.lanes, step.buf)
           ELSE IF step.lanes = 1 THEN AsconAbsorb8(x, step.buf)
           ELSE AsconAbsorb16(x, step.buf)

RECURSIVE StatesAfter(_, _, _, _)
\* the set holding the state after the first n steps, from the initial state
StatesAfter(v, key, steps, n) ==
    IF n = 0 THEN {IF v = "ascon" THEN AsconInitialState ELSE KeccakInitialState}
    ELSE {ApplyStep(v, key, x, steps[n]) : x \in StatesAfter(v, key, steps, n - 1)}

\* the state the steps leave
RunSteps(v, key, steps) == CHOOSE x \in StatesAfter(v, key, steps, Len(steps)) : TRUE

\* StreamCipher::new of the module named by variant v
New(v, key, context) ==
    CASE v = "ascon"  -> AsconNew(key, context)
      [] v = "keccak" -> KeccakNew(key, context)
      [] v = "chacha" -> ChaChaNew(key, context)

(***************************************************************************)
(* Block computation: store_rate, apply_rate, squeeze_rate.  Each takes    *)
(* self by value (mut self of a Copy type): it works on its own copy of    *)
(* the instance, which it changes and then drops.  The result is           *)
(* [out, self]: the bytes left in the out slice and the callee's copy.     *)
(***************************************************************************)
AsconRate == 16
KeccakRate == 160
ChaChaRate == 64

\* the block size fill and apply_keystream divide the byte offset by
Rate(v) ==
    CASE v = "ascon" -> AsconRate [] v = "keccak" -> KeccakRate [] v = "chacha" -> ChaChaRate

\* the bytes of one state word: u64 lanes (ascon, keccak), u32 words (chacha)
LaneBytes(v) == IF v = "chacha" THEN 4 ELSE 8

\* counter injection: the callee's state as handed to the permutation
InjectCounter(v, self, block_offset) ==
    CASE v = "ascon"  -> [self EXCEPT ![5] = Xor64(@, block_offset)]
      [] v = "keccak" -> [self EXCEPT ![5] = Xor64(@, block_offset)]
      [] v = "chacha" ->
           Bind(block_offset, LAMBDA n :
               [self EXCEPT ![13] = LowHalf(n), ![14] = HighHalf(n)])

\* the permutation call of store_rate and apply_rate
SqueezePermute(v, x) ==
    CASE v = "ascon"  -> AsconPermuteR(x)
      [] v = "keccak" -> KeccakPermute(x)
      [] v = "chacha" -> ChaChaPermute(x)

\* the callee's state after counter injection and permutation
BlockState(v, self, block_offset) == SqueezePermute(v, InjectCounter(v, self, block_offset))

\* a block computation that writes out the first word of the state only
FirstLane(v, x) == SubSeq(x, 1, 1)

\* the words store_rate writes out: st[0], st[1] (ascon), st[5 + i] for i in
\* 0..20 (keccak), st[i] for i in 0..16 (chacha)
RateLanes(v, x) ==
    CASE v = "ascon"  -> SubSeq(x, 1, 2)
      [] v = "keccak" -> SubSeq(x, 6, 25)
      [] v = "chacha" -> x

\* out[i * w..][..w].copy_from_slice(&lane[i].to_le_bytes()) for every lane
LanesToBytes(v, lanes) ==
    Bind(lanes, LAMBDA l :
        Tuple([j \in 1 .. Len(l) * LaneBytes(v) |->
                  LeByte(l[((j - 1) \div LaneBytes(v)) + 1], (j - 1) % LaneBytes(v))]))

\* from_le_bytes(out[i * w..][..w]) for every lane of the out slice
BytesToLanes(v, out) ==
    Bind(out, LAMBDA o :
        Tuple([i \in 1 .. Len(o) \div LaneBytes(v) |->
                  IF v = "chacha" THEN FromLeBytes32(Slice(o, 4 * (i - 1), 4))
                  ELSE FromLeBytes64(Slice(o, 8 * (i - 1), 8))]))

\* self.st[i] ^ x (ascon, keccak), out_i ^ self.st[i] (chacha), lane by lane
XorLanes(v, lanes, words) ==
    Bind(<< lanes, words >>, LAMBDA p :
        Tuple([i \in 1 .. Len(p[1]) |->
                  IF v = "chacha" THEN Xor32(p[2][i], p[1][i]) ELSE Xor64(p[1][i], p[2][i])]))

\* the bytes store_rate leaves in out
RateBytes(v, x) == LanesToBytes(v, RateLanes(v, x))
\* the bytes apply_rate leaves in out
RateXorBytes(v, x, out) == LanesToBytes(v, XorLanes(v, RateLanes(v, x), BytesToLanes(v, out)))

\* for i in 0..n { dst[i] ^= src[i] }
XorBytes(dst, src) ==
    Bind(<< dst, src >>, LAMBDA p :
        Tuple([i \in 1 .. Len(p[1]) |-> XorByte(p[1][i], p[2][i])]))

\* a copy that leaves the previous contents of dst mixed into the result
XorInto(dst, src) == XorBytes(dst, src)

\* dst.copy_from_slice(src): dst and src have the same length; every byte
\* of dst is replaced
CopyFromSlice(dst, src) == src

StoreRate(v, self, out, block_offset) ==
    Bind(BlockState(v, self, block_offset), LAMBDA x :
        [out |-> CopyFromSlice(out, RateBytes(v, x)), self |-> x])

\* a whole block that is overwritten with the keystream instead of XORed
OverwriteRate(v, self, out, block_offset) == StoreRate(v, self, out, block_offset)

ApplyRate(v, self, out, block_offset) ==
    Bind(<< BlockState(v, self, block_offset), out >>, LAMBDA p :
        [out |-> CopyFromSlice(p[2], RateXorBytes(v, p[1], p[2])), self |-> p[1]])

SqueezeRate(v, self, block_offset) == StoreRate(v, self, Zeros(Rate(v)), block_offset)

\* a by-reference callee would leave its changes in the caller's instance
WriteBack(instance, callee) == callee

\* a callee that injects the counter into the caller's instance
LeakLane(instance, callee) == [instance EXCEPT ![5] = callee[5]]

\* the caller's instance once a by-value callee has returned: the callee's
\* copy is dropped
SelfAfterCall(instance, callee) == instance

\* a block index that is not advanced
SameBlock(block_offset) == [sum |-> block_offset, none |-> FALSE]

\* block_offset += 1: the new value and whether the addition overflowed
Increment(block_offset) == CheckedAdd(block_offset, U64(1))

\* the buffer with the bytes at 0-based positions pos .. pos + len(bytes) - 1
\* replaced
WriteAt(buf, pos, bytes) ==
    Bind(<< buf, bytes >>, LAMBDA p :
        SubSeq(p[1], 1, pos) \o p[2] \o SubSeq(p[1], pos + Len(p[2]) + 1, Len(p[1])))

\* the first n bytes of the block, whatever the offset
FromBlockStart(rate, offset_in_first_block, n) == Slice(rate, 0, n)

\* rate[offset_in_first_block..][..bytes_to_copy]
FirstBlockBytes(rate, offset_in_first_block, n) == Slice(rate, offset_in_first_block, n)

(***************************************************************************)
(* fill and apply_keystream.  The cursor c of a call holds the caller's    *)
(* whole buffer (buf), how many bytes the out slice has advanced (pos),    *)
(* block_offset, the callee copy of the last block computation (local),    *)
(* and for the properties: the indices written, the block indices used,    *)
(* and whether block_offset += 1 ever overflowed.                          *)
(***************************************************************************)
Cursor(buf, pos, block_offset, local, written, blocks, overflowed) ==
    [buf |-> buf, pos |-> pos, block_offset |-> block_offset, local |-> local,
     written |-> written, blocks |-> blocks, overflowed |-> overflowed]

\* the result of a call
Returned(res, c) ==
    Bind(c, LAMBDA k :
        [res |-> res, out |-> k.buf, local |-> k.local, written |-> k.written,
         blocks |-> k.blocks, overflowed |-> k.overflowed])

\* out.len(): the bytes of the buffer the out slice still covers
Remaining(c) == Len(c.buf) - c.pos

\* cmp::min(rate - offset_in_first_block, out.len())
BytesToCopy(v, offset_in_first_block, len) == Min(Rate(v) - offset_in_first_block, len)

\* the cursor after n bytes of the out slice got the value bytes from the
\* block computation b at block index block_offset
Advance(c, n, bytes, b, block_offset, overflowed) ==
    Cursor(WriteAt(c.buf, c.pos, bytes), c.pos + n, block_offset, b.self,
           c.written \cup (c.pos + 1 .. c.pos + n), Append(c.blocks, block_offset),
           c.overflowed \/ overflowed)

\* if bytes_to_copy > 0 { out[..n].copy_from_slice(&rate[offset..][..n]) }
FillFirst(v, self, c, offset_in_first_block) ==
    Bind(c, LAMBDA k :
        Bind(BytesToCopy(v, offset_in_first_block, Remaining(k)), LAMBDA n :
            IF n > 0
            THEN Bind(SqueezeRate(v, self, k.block_offset), LAMBDA b :
                     Advance(k, n,
                             CopyFromSlice(Slice(k.buf, 0, n),
                                 FirstBlockBytes(b.out, offset_in_first_block, n)),
                             b, k.block_offset, FALSE))
            ELSE k))

\* an iteration of the loop that squeezes the block of the iteration before
RepeatBlock(v, self, c) ==
    Bind(c, LAMBDA k :
        Bind(StoreRate(v, self, Slice(k.buf, k.pos, Rate(v)), k.block_offset), LAMBDA b :
            Advance(k, Rate(v), b.out, b, k.block_offset, FALSE)))

\* one iteration of the loop of fill:
\* block_offset += 1; self.store_rate(&mut out[..rate], block_offset); out = &mut out[rate..]
FillLoopStep(v, self, c) ==
    Bind(c, LAMBDA k :
        Bind(Increment(k.block_offset), LAMBDA inc :
            Bind(StoreRate(v, self, Slice(k.buf, k.pos, Rate(v)), inc.sum), LAMBDA b :
                Advance(k, Rate(v), b.out, b, inc.sum, inc.none))))

RECURSIVE FillLoop(_, _, _)
\* while out.len() >= rate { block_offset += 1; store_rate(&mut out[..rate]) }
FillLoop(v, self, c) ==
    Bind(c, LAMBDA k :
        IF Remaining(k) >= Rate(v) THEN FillLoop(v, self, FillLoopStep(v, self, k)) ELSE k)

\* a trailing partial block that is left out
SkipLast(v, self, c) == c

\* if !out.is_empty() { block_offset += 1; out.copy_from_slice(&rate[..out.len()]) }
FillLast(v, self, c) ==
    Bind(c, LAMBDA k :
        IF Remaining(k) > 0
        THEN Bind(Increment(k.block_offset), LAMBDA inc :
                 Bind(SqueezeRate(v, self, inc.sum), LAMBDA b :
                     Advance(k, Remaining(k),
                             CopyFromSlice(Slice(k.buf, k.pos, Remaining(k)),
                                 Slice(b.out, 0, Remaining(k))),
                             b, inc.sum, inc.none)))
        ELSE k)

\* fill once its arguments are evaluated
FillBody(v, self, out, start_offset) ==
    IF CheckedAdd(start_offset, U64(Len(out))).none
    THEN Returned("Err", Cursor(out, 0, start_offset, self, {}, << >>, FALSE))
    ELSE Bind(DivMod(start_offset, Rate(v)), LAMBDA dm :
             Returned("Ok",
                 FillLast(v, self,
                     FillLoop(v, self,
                         FillFirst(v, self, Cursor(out, 0, dm.quot, self, {}, << >>, FALSE),
                                   dm.rem)))))

\* StreamCipher::fill(&self, out, start_offset)
Fill(v, self, out, start_offset) ==
    Bind(<< self, out, start_offset >>, LAMBDA a : FillBody(v, a[1], a[2], a[3]))

\* if bytes_to_copy > 0 { for i in 0..n { out[i] ^= rate[offset + i] } }
ApplyFirst(v, self, c, offset_in_first_block) ==
    Bind(c, LAMBDA k :
        Bind(BytesToCopy(v, offset_in_first_block, Remaining(k)), LAMBDA n :
            IF n > 0
            THEN Bind(SqueezeRate(v, self, k.block_offset), LAMBDA b :
                     Advance(k, n,
                             XorBytes(Slice(k.buf, 0, n),
                                 FirstBlockBytes(b.out, offset_in_first_block, n)),
                             b, k.block_offset, FALSE))
            ELSE k))

\* one iteration of the loop of apply_keystream:
\* block_offset += 1; self.apply_rate(&mut out[..rate], block_offset); out = &mut out[rate..]
ApplyLoopStep(v, self, c) ==
    Bind(c, LAMBDA k :
        Bind(Increment(k.block_offset), LAMBDA inc :
            Bind(ApplyRate(v, self, Slice(k.buf, k.pos, Rate(v)), inc.sum), LAMBDA b :
                Advance(k, Rate(v), b.out, b, inc.sum, inc.none))))

RECURSIVE ApplyLoop(_, _, _)
\* while out.len() >= rate { block_offset += 1; apply_rate(&mut out[..rate]) }
ApplyLoop(v, self, c) ==
    Bind(c, LAMBDA k :
        IF Remaining(k) >= Rate(v) THEN ApplyLoop(v, self, ApplyLoopStep(v, self, k)) ELSE k)

\* a trailing partial block that is overwritten with the keystream instead
\* of XORed
CopyLast(v, self, c) == FillLast(v, self, c)

\* if !out.is_empty() { block_offset += 1; for i in 0..out.len() { out[i] ^= rate[i] } }
ApplyLast(v, self, c) ==
    Bind(c, LAMBDA k :
        IF Remaining(k) > 0
        THEN Bind(Increment(k.block_offset), LAMBDA inc :
                 Bind(SqueezeRate(v, self, inc.sum), LAMBDA b :
                     Advance(k, Remaining(k),
                             XorBytes(Slice(k.buf, k.pos, Remaining(k)),
                                 Slice(b.out, 0, Remaining(k))),
                             b, inc.sum, inc.none)))
        ELSE k)

\* apply_keystream once its arguments are evaluated
ApplyBody(v, self, out, start_offset) ==
    IF CheckedAdd(start_offset, U64(Len(out))).none
    THEN Returned("Err", Cursor(out, 0, start_offset, self, {}, << >>, FALSE))
    ELSE Bind(DivMod(start_offset, Rate(v)), LAMBDA dm :
             Returned("Ok",
                 ApplyLast(v, self,
                     ApplyLoop(v, self,
                         ApplyFirst(v, self, Cursor(out, 0, dm.quot, self, {}, << >>, FALSE),
                                    dm.rem)))))

\* StreamCipher::apply_keystream(&self, out, start_offset)
ApplyKeystream(v, self, out, start_offset) ==
    Bind(<< self, out, start_offset >>, LAMBDA a : ApplyBody(v, a[1], a[2], a[3]))

(***************************************************************************)
(* The state machine.  An instance is built by new and then used by any    *)
(* number of fill and apply_keystream calls, each on a buffer the caller   *)
(* supplies.                                                               *)
(*   variant  the module the instance belongs to                           *)
(*   key, context   the arguments new was given                            *)
(*   st       the instance's permutation state (StreamCipher.st), NoState  *)
(*            before new has run and when new panicked                     *)
(*   pc       "start": new not yet called; "panicked": new panicked;       *)
(*            "idle": the instance exists, no call in progress;            *)
(*            "returned": the last call has just returned and the caller   *)
(*            still holds its buffer                                       *)
(*   call     the last call: its arguments (op, start_offset, the buffer   *)
(*            before the call) and its outcome                             *)
(*   threads  the threads that share the instance (SpecConc): for each its *)
(*            call, its position in it and its own buffer                  *)
(***************************************************************************)
VARIABLES variant, key, context, st, pc, call, threads

vars == << variant, key, context, st, pc, call, threads >>

\* whole blocks in the longest buffer a call is given
MaxBlocks == 1
\* largest shift between two overlapping fills that are compared
MaxShift == 2

Variants == {"ascon", "keccak", "chacha"}

\* "testtest..." cut to n bytes, and n zero bytes
Text(n) == Tuple([i \in 1 .. n |-> << 116, 101, 115, 116 >>[((i - 1) % 4) + 1]])
Blank(n) == Zeros(n)
\* a buffer of n bytes holding data
Ramp(n) == Tuple([i \in 1 .. n |-> (29 * i + 7) % 256])

Key0 == Blank(KEY_LENGTH)
Key1 == Tuple([i \in 1 .. KEY_LENGTH |-> (37 * i + 11) % 256])
Keys == {Key0, Key1}

\* the instances the stream operations are run on
Instances ==
    { << "ascon", Key1, Text(4) >>, << "ascon", Key0, Text(12) >>,
      << "keccak", Key1, Text(4) >>, << "chacha", Key1, Text(8) >> }

\* buffer lengths: empty, inside one block, exactly one block, and MaxBlocks
\* whole blocks plus two bytes
Lens(v) == {0, 5, Rate(v), MaxBlocks * Rate(v) + 2}
Buffers(v) == {Blank(n) : n \in Lens(v)} \cup {Ramp(n) : n \in Lens(v)}

\* start offsets: at the start of the stream, inside the first block (the
\* offset the tests use), on the last byte of a block, on the first byte of
\* the next block, and u64::MAX - g for the gaps g that put a buffer's end
\* on, or one past, the last byte offset
LowStarts(v) == {0, 10, Rate(v) - 1, Rate(v)}
HighGaps(v) == Lens(v) \cup {n - 1 : n \in Lens(v) \ {0}}
Starts(v) == {U64(n) : n \in LowStarts(v)} \cup {MaxMinus(g) : g \in HighGaps(v)}

NoCall ==
    [op |-> "none", start_offset |-> {}, pre |-> << >>, res |-> "none", out |-> << >>,
     written |-> {}, blocks |-> << >>, overflowed |-> FALSE]

CallRecord(op, start_offset, pre, r) ==
    [op |-> op, start_offset |-> start_offset, pre |-> pre, res |-> r.res, out |-> r.out,
     written |-> r.written, blocks |-> r.blocks, overflowed |-> r.overflowed]

\* Spec starts once new has returned an instance
Init ==
    /\ \E i \in Instances :
          /\ variant = i[1]
          /\ key = i[2]
          /\ context = i[3]
          /\ st = New(i[1], i[2], i[3]).st
    /\ pc = "idle"
    /\ call = NoCall
    /\ threads = << >>

\* the caller calls fill(&mut buf, start_offset)
FillCall(buf, start_offset) ==
    /\ pc = "idle"
    /\ \E r \in {Fill(variant, st, buf, start_offset)} :
          /\ call' = CallRecord("fill", start_offset, buf, r)
          /\ st' = SelfAfterCall(st, r.local)
    /\ pc' = "returned"
    /\ UNCHANGED << variant, key, context, threads >>

\* the caller calls apply_keystream(&mut buf, start_offset)
ApplyCall(buf, start_offset) ==
    /\ pc = "idle"
    /\ \E r \in {ApplyKeystream(variant, st, buf, start_offset)} :
          /\ call' = CallRecord("apply", start_offset, buf, r)
          /\ st' = SelfAfterCall(st, r.local)
    /\ pc' = "returned"
    /\ UNCHANGED << variant, key, context, threads >>

\* the caller is done with the buffer; the instance stays in use
Release ==
    /\ pc = "returned"
    /\ pc' = "idle"
    /\ call' = NoCall
    /\ UNCHANGED << variant, key, context, st, threads >>

Next ==
    \/ \E buf \in Buffers(variant), start_offset \in Starts(variant) :
          FillCall(buf, start_offset)
    \/ \E buf \in Buffers(variant), start_offset \in Starts(variant) :
          ApplyCall(buf, start_offset)
    \/ Release

Spec == Init /\ [][Next]_vars

(***************************************************************************)
(* SpecNew: the construction alone, over keys and contexts of every shape. *)
(***************************************************************************)
\* context lengths around the 8-byte first part and the 16-byte parts of
\* ascon, and around the 168-byte parts of keccak; the 8-byte id of chacha
ContextLens(v) ==
    CASE v = "ascon"  -> {0, 1, 4, 7, 8, 9, 12, 23, 24, 25, 40, 45}
      [] v = "keccak" -> {0, 4, 167, 168, 169, 336, 337, 400}
      [] v = "chacha" -> {8}
Contexts(v) == {Text(n) : n \in ContextLens(v)} \cup {Blank(n) : n \in ContextLens(v)}

InitNew ==
    /\ variant \in Variants
    /\ key \in Keys
    /\ context \in Contexts(variant)
    /\ st = NoState
    /\ pc = "start"
    /\ call = NoCall
    /\ threads = << >>

\* the caller calls StreamCipher::new(&key, context)
Construct ==
    /\ pc = "start"
    /\ \E r \in {New(variant, key, context)} :
          /\ st' = r.st
          /\ pc' = IF r.panicked THEN "panicked" ELSE "idle"
    /\ UNCHANGED << variant, key, context, call, threads >>

NextNew == Construct

SpecNew == InitNew /\ [][NextNew]_vars

(***************************************************************************)
(* Properties.  A call that has returned is in `call`; the properties      *)
(* compare what it did with the operations applied to related arguments.   *)
(***************************************************************************)
\* a > b as unsigned 64-bit numbers: the highest bit they differ in is set in a
Gt64(a, b) == \E i \in a \ b : \A j \in b \ a : j < i

\* start_offset + len > 2^64 - 1, that is len > (2^64 - 1) - start_offset
ExceedsRange(start_offset, len) == Gt64(U64(len), Not64(start_offset))

FillReturned == pc = "returned" /\ call.op = "fill"
ApplyReturned == pc = "returned" /\ call.op = "apply"
\* the whole buffer: every index of it
Whole(buf) == 1 .. Len(buf)

\* C1: fill and apply_keystream return the overflow error exactly when
\* start_offset + len(out) > 2^64 - 1 and Ok otherwise, and the block index
\* incremented inside the call never passes 2^64 - 1.
C1_OverflowExact ==
    pc = "returned" =>
        /\ call.res \in {"Ok", "Err"}
        /\ (call.res = "Err") <=> ExceedsRange(call.start_offset, Len(call.pre))
        /\ ~call.overflowed

\* a non-empty buffer at start_offset = u64::MAX was refused
C1_Witness ==
    /\ pc = "returned"
    /\ call.start_offset = U64MAX
    /\ Len(call.pre) > 0
    /\ call.res = "Err"

\* C2 as stated: new of every variant returns an instance for every context
\* length; it never panics.
C2_SetupNeverFails == pc # "panicked"

\* C2, what new does: it panics exactly for a keccak context of 168 bytes or
\* more and for an ascon context of 8 + 16k bytes with k >= 1, and returns
\* an instance otherwise.
C2_PanicExactly ==
    pc # "start" =>
        /\ pc \in {"panicked", "idle"}
        /\ (pc = "panicked") <=>
               \/ variant = "keccak" /\ Len(context) >= 168
               \/ variant = "ascon" /\ Len(context) >= 24 /\ (Len(context) - 8) % 16 = 0
        /\ (pc = "idle") <=> (st # NoState)

\* new panicked on an ascon context of 24 bytes
C2_Witness ==
    /\ pc = "panicked"
    /\ variant = "ascon"
    /\ Len(context) = 24

\* C3: apply_keystream leaves B XOR K in the buffer, where K is what fill
\* writes into a buffer of the same length at the same start_offset.
C3_Duality ==
    (ApplyReturned /\ call.res = "Ok") =>
        \A k \in {Fill(variant, st, Blank(Len(call.pre)), call.start_offset)} :
            /\ k.res = "Ok"
            /\ Len(call.out) = Len(call.pre)
            /\ \A i \in Whole(call.pre) : call.out[i] = XorByte(call.pre[i], k.out[i])

\* an apply over a first partial block, a whole block and a trailing partial
\* block of a buffer that held data
C3_Witness ==
    /\ ApplyReturned
    /\ call.res = "Ok"
    /\ call.pre = Ramp(MaxBlocks * Rate(variant) + 2)
    /\ Len(call.blocks) = MaxBlocks + 2

\* C4: for every shift k up to MaxShift and at most the length N, the fill
\* of N - k bytes at start_offset + k succeeds and equals the fill of N bytes
\* at start_offset without its first k bytes.
C4_ShiftConsistency ==
    (FillReturned /\ call.res = "Ok") =>
        \A k \in 1 .. Min(MaxShift, Len(call.pre)) :
            \A b \in {Fill(variant, st, Blank(Len(call.pre) - k),
                           CheckedAdd(call.start_offset, U64(k)).sum)} :
                /\ b.res = "Ok"
                /\ b.out = SubSeq(call.out, k + 1, Len(call.out))

\* a fill that starts on the last byte of a block, so that the shifted fill
\* starts in the next block
C4_Witness ==
    /\ FillReturned
    /\ call.res = "Ok"
    /\ call.start_offset = U64(Rate(variant) - 1)
    /\ Len(call.pre) > MaxShift

\* C5: the n bytes fill writes at a start_offset o equal bytes [o, o + n) of
\* one fill of o + n bytes at start_offset 0 (for the offsets o of LowStarts).
C5_SeekEquivalence ==
    (FillReturned /\ call.res = "Ok") =>
        \A o \in {n \in LowStarts(variant) : U64(n) = call.start_offset} :
            \A a \in {Fill(variant, st, Blank(o + Len(call.pre)), U64(0))} :
                /\ a.res = "Ok"
                /\ SubSeq(a.out, o + 1, o + Len(call.pre)) = call.out

\* a fill inside the stream, not at its start, over more than one block
C5_Witness ==
    /\ FillReturned
    /\ call.res = "Ok"
    /\ call.start_offset = U64(10)
    /\ Len(call.pre) > Rate(variant)
    /\ call.pre = Ramp(Len(call.pre))

\* C6: apply_keystream applied again, with the same start_offset, to the
\* buffer a successful apply_keystream left restores the original contents.
C6_Involution ==
    (ApplyReturned /\ call.res = "Ok") =>
        \A r \in {ApplyKeystream(variant, st, call.out, call.start_offset)} :
            /\ r.res = "Ok"
            /\ r.out = call.pre

\* an apply that changed a non-empty buffer
C6_Witness ==
    /\ ApplyReturned
    /\ call.res = "Ok"
    /\ Len(call.pre) > Rate(variant)
    /\ call.out # call.pre

\* C7: the bytes a fill writes are those a fill of the same length at the
\* same start_offset writes on a freshly built instance of the same key and
\* context into a buffer with other contents.
C7_Determinism ==
    (FillReturned /\ call.res = "Ok") =>
        \A r \in {Fill(variant, New(variant, key, context).st, Text(Len(call.pre)),
                       call.start_offset)} :
            /\ r.res = "Ok"
            /\ r.out = call.out

\* a fill into a buffer that held data
C7_Witness ==
    /\ FillReturned
    /\ call.res = "Ok"
    /\ call.pre = Ramp(5)
    /\ call.out # call.pre

\* C8: a call that returns the overflow error has written no byte of the
\* buffer; a call that returns Ok has written every byte of it.
C8_NoPartialSuccess ==
    pc = "returned" =>
        /\ call.res = "Err" => (call.out = call.pre /\ call.written = {})
        /\ call.res = "Ok" => (call.written = Whole(call.pre) /\ Len(call.out) = Len(call.pre))

\* a refused call on a buffer that held data
C8_Witness ==
    /\ pc = "returned"
    /\ call.res = "Err"
    /\ call.pre = Ramp(5)
    /\ call.out = Ramp(5)

\* C9 as stated: a fill of a non-empty buffer at start_offset =
\* u64::MAX - len(buf) + 1 returns Ok and writes the range.
C9_AsStated ==
    (FillReturned /\ Len(call.pre) >= 1 /\ call.start_offset = MaxMinus(Len(call.pre) - 1)) =>
        (call.res = "Ok" /\ call.written = Whole(call.pre))

\* C9: a fill of a non-empty buffer at start_offset = u64::MAX - len(buf),
\* whose range ends at start_offset + len(buf) = u64::MAX, returns Ok and
\* writes the range; one byte further, at u64::MAX - len(buf) + 1, it
\* returns the overflow error.
C9_Boundary ==
    (FillReturned /\ Len(call.pre) >= 1) =>
        /\ call.start_offset = MaxMinus(Len(call.pre)) =>
               (call.res = "Ok" /\ call.written = Whole(call.pre))
        /\ call.start_offset = MaxMinus(Len(call.pre) - 1) => call.res = "Err"

\* a fill of more than a block that ends at u64::MAX
C9_Witness ==
    /\ FillReturned
    /\ Len(call.pre) > Rate(variant)
    /\ call.start_offset = MaxMinus(Len(call.pre))
    /\ call.res = "Ok"

\* C10: no fill or apply_keystream call, successful or failing, changes the
\* permutation state of the instance.
C10_InstanceUnchanged == [][st' = st]_vars

\* a call that ran block computations has returned and the instance is the
\* one new built
C10_Witness ==
    /\ pc = "returned"
    /\ call.res = "Ok"
    /\ Len(call.blocks) >= 2
    /\ st = New(variant, key, context).st

(***************************************************************************)
(* SpecConc: threads that share one instance through &self.  Each thread   *)
(* makes one call on a buffer of its own; a step of a thread is one block  *)
(* computation of its call (the first block, one iteration of the loop,    *)
(* the trailing block), and the steps of the threads interleave freely.    *)
(* A thread t is the record                                                *)
(*   pc       "idle", "first", "loop" or "done"                            *)
(*   op, start_offset, pre   the call and the buffer as it was given       *)
(*   offset   offset_in_first_block                                        *)
(*   c        the cursor of the call: the buffer, out, block_offset         *)
(*   res      the Result once the call has returned                        *)
(*   alone    what the same call gives on the instance with no other       *)
(*            thread running, computed when the call starts                *)
(*   overlapped   whether the thread took a step while another thread was  *)
(*            inside a call                                                *)
(***************************************************************************)
\* the threads sharing the instance: two, so that every pair of calls
\* overlaps in every way
Threads == {1, 2}

\* the instances the threads share: one of each module
SharedInstances ==
    { << "ascon", Key1, Text(4) >>, << "keccak", Key1, Text(4) >>,
      << "chacha", Key1, Text(8) >> }

\* thread t works on a buffer of its own contents, one whole block and two
\* bytes long, at an offset of its own
ThreadBuffer(v, t) ==
    Tuple([i \in 1 .. Rate(v) + 2 |-> (29 * i + 7 + 50 * t) % 256])
\* the calls thread t chooses from: fill or apply_keystream at an offset of
\* its own, t bytes before the end of the first block, and a fill that is
\* refused
ThreadCalls(v, t) ==
    { << "fill", U64(Rate(v) - t) >>, << "apply", U64(Rate(v) - t) >>,
      << "fill", U64MAX >> }

ThreadIdle ==
    [pc |-> "idle", op |-> "none", start_offset |-> {}, pre |-> << >>, offset |-> 0,
     c |-> Cursor(<< >>, 0, {}, << >>, {}, << >>, FALSE), res |-> "none",
     alone |-> << >>, overlapped |-> FALSE]

\* the call run from its first to its last step on the instance self
Alone(op, v, self, buf, start_offset) ==
    IF op = "fill" THEN Fill(v, self, buf, start_offset)
    ELSE ApplyKeystream(v, self, buf, start_offset)

\* another thread than t is inside a call
OthersRunning(t) == \E u \in Threads \ {t} : threads[u].pc \in {"first", "loop"}

InitConc ==
    /\ \E i \in SharedInstances :
          /\ variant = i[1]
          /\ key = i[2]
          /\ context = i[3]
          /\ st = New(i[1], i[2], i[3]).st
    /\ pc = "idle"
    /\ call = NoCall
    /\ threads = [t \in Threads |-> ThreadIdle]

\* thread t calls fill or apply_keystream: the overflow check, then
\* block_offset and offset_in_first_block
Begin(t, op, buf, start_offset) ==
    /\ threads[t].pc = "idle"
    /\ \E a \in {Alone(op, variant, st, buf, start_offset)},
          dm \in {DivMod(start_offset, Rate(variant))} :
          threads' = [threads EXCEPT ![t] =
              IF CheckedAdd(start_offset, U64(Len(buf))).none
              THEN [pc |-> "done", op |-> op, start_offset |-> start_offset, pre |-> buf,
                    offset |-> 0, c |-> Cursor(buf, 0, start_offset, st, {}, << >>, FALSE),
                    res |-> "Err", alone |-> [res |-> a.res, out |-> a.out],
                    overlapped |-> OthersRunning(t)]
              ELSE [pc |-> "first", op |-> op, start_offset |-> start_offset, pre |-> buf,
                    offset |-> dm.rem, c |-> Cursor(buf, 0, dm.quot, st, {}, << >>, FALSE),
                    res |-> "none", alone |-> [res |-> a.res, out |-> a.out],
                    overlapped |-> OthersRunning(t)]]
    /\ UNCHANGED << variant, key, context, st, pc, call >>

\* thread t computes the first block of its call
StepFirst(t) ==
    /\ threads[t].pc = "first"
    /\ \E k \in {IF threads[t].op = "fill"
                 THEN FillFirst(variant, st, threads[t].c, threads[t].offset)
                 ELSE ApplyFirst(variant, st, threads[t].c, threads[t].offset)} :
          /\ threads' = [threads EXCEPT ![t].c = k, ![t].pc = "loop",
                                        ![t].overlapped = @ \/ OthersRunning(t)]
          /\ st' = SelfAfterCall(st, k.local)
    /\ UNCHANGED << variant, key, context, pc, call >>

\* thread t runs one iteration of the loop over whole blocks
StepLoop(t) ==
    /\ threads[t].pc = "loop"
    /\ Remaining(threads[t].c) >= Rate(variant)
    /\ \E k \in {IF threads[t].op = "fill"
                 THEN FillLoopStep(variant, st, threads[t].c)
                 ELSE ApplyLoopStep(variant, st, threads[t].c)} :
          /\ threads' = [threads EXCEPT ![t].c = k,
                                        ![t].overlapped = @ \/ OthersRunning(t)]
          /\ st' = SelfAfterCall(st, k.local)
    /\ UNCHANGED << variant, key, context, pc, call >>

\* thread t leaves the loop, computes the trailing block and returns Ok
StepLast(t) ==
    /\ threads[t].pc = "loop"
    /\ Remaining(threads[t].c) < Rate(variant)
    /\ \E k \in {IF threads[t].op = "fill"
                 THEN FillLast(variant, st, threads[t].c)
                 ELSE ApplyLast(variant, st, threads[t].c)} :
          /\ threads' = [threads EXCEPT ![t].c = k, ![t].pc = "done", ![t].res = "Ok",
                                        ![t].overlapped = @ \/ OthersRunning(t)]
          /\ st' = SelfAfterCall(st, k.local)
    /\ UNCHANGED << variant, key, context, pc, call >>

NextConc ==
    \/ \E t \in Threads : \E a \in ThreadCalls(variant, t) :
          Begin(t, a[1], ThreadBuffer(variant, t), a[2])
    \/ \E t \in Threads : StepFirst(t)
    \/ \E t \in Threads : StepLoop(t)
    \/ \E t \in Threads : StepLast(t)

SpecConc == InitConc /\ [][NextConc]_vars

\* C11: whatever the interleaving of the block computations of the threads,
\* a call that has returned gave its caller the Result and the buffer that
\* the same call gives when it runs alone on the instance.
C11_ConcurrentAsAlone ==
    \A t \in Threads :
        threads[t].pc = "done" =>
            /\ threads[t].res = threads[t].alone.res
            /\ threads[t].c.buf = threads[t].alone.out

\* two threads have returned from calls that overlapped, one from fill and
\* one from apply_keystream
C11_Witness ==
    /\ threads[1].pc = "done" /\ threads[1].overlapped /\ threads[1].op = "fill"
    /\ threads[2].pc = "done" /\ threads[2].overlapped /\ threads[2].op = "apply"
    /\ threads[1].res = "Ok" /\ threads[2].res = "Ok"
    /\ Len(threads[1].c.blocks) = 3
(***************************************************************************)
(* The keystream as a sequence of blocks.                                  *)
(***************************************************************************)
\* Block(instance, block_index): the bytes squeeze_rate returns
Block(v, self, block_index) == SqueezeRate(v, self, block_index).out

\* byte offset start_offset + j split into its block index and the position
\* inside the block, for every 0-based index j of a buffer of n bytes
SplitOffsets(v, start_offset, n) ==
    Tuple([i \in 1 .. n |->
              DivMod(CheckedAdd(start_offset, U64(i - 1)).sum, Rate(v))])

\* the blocks of the instance at the block indices of the sequence split,
\* as pairs << block index, Block >>
BlocksAt(v, self, split) ==
    {<< q, Block(v, self, q) >> : q \in {split[i].quot : i \in DOMAIN split}}

\* the block at block index q among the pairs
BlockOf(blocks, q) == (CHOOSE p \in blocks : p[1] = q)[2]

\* C12: after a successful fill, byte j of the buffer is byte
\* (start_offset + j) mod rate of Block(instance, (start_offset + j) div rate),
\* for every index j of the buffer.
C12_PerByteReference ==
    (FillReturned /\ call.res = "Ok") =>
        \A split \in {SplitOffsets(variant, call.start_offset, Len(call.out))} :
            \A blocks \in {BlocksAt(variant, st, split)} :
                \A i \in Whole(call.out) :
                    call.out[i] = BlockOf(blocks, split[i].quot)[split[i].rem + 1]

\* a fill over the end of a first block, whole blocks and the start of a
\* trailing block, into a buffer that held zero bytes
C12_Witness ==
    /\ FillReturned
    /\ call.res = "Ok"
    /\ call.start_offset = U64(Rate(variant) - 1)
    /\ call.pre = Blank(MaxBlocks * Rate(variant) + 2)
    /\ Len(call.blocks) = MaxBlocks + 2

(***************************************************************************)
(* Block size                                                              *)
(***************************************************************************)
\* a call that returned Ok and computed at least one block
CallUsedBlocks == pc = "returned" /\ call.res = "Ok" /\ Len(call.blocks) > 0

\* the call split its start_offset with the block size rate, computed one
\* block for every rate bytes of the stream its buffer covers, and
\* squeeze_rate returns rate bytes
SplitsWith(rate) ==
    \A dm \in {DivMod(call.start_offset, rate)} :
        /\ call.blocks[1] = dm.quot
        /\ Len(call.blocks) = ((dm.rem + Len(call.pre) - 1) \div rate) + 1
        /\ Len(Block(variant, st, dm.quot)) = rate

\* the block sizes of the parameter table
TableRate(v) == CASE v = "ascon" -> 40 [] v = "keccak" -> 160 [] v = "chacha" -> 64
\* the block sizes of the table with 16 bytes for ascon
SqueezedRate(v) == CASE v = "ascon" -> 16 [] v = "keccak" -> 160 [] v = "chacha" -> 64

RunRounds(v, x, n) ==
    CASE v = "ascon"  -> AsconRounds(x, 1, n)
      [] v = "keccak" -> KeccakRounds(x, 1, n)
      [] v = "chacha" ->
           Bind(x, LAMBDA mask : ChaChaFeedForward(ChaChaLoop(mask, n \div 2), mask))

\* the bytes of the block at block_index when the permutation runs n rounds
BlockWithRounds(v, self, block_index, n) ==
    RateBytes(v, RunRounds(v, InjectCounter(v, self, block_index), n))

\* the bytes a fill took from its first block are those of a block
\* computation of n rounds
FirstBlockHasRounds(n) ==
    \A dm \in {DivMod(call.start_offset, Rate(variant))} :
        \A k \in {BytesToCopy(variant, dm.rem, Len(call.pre))} :
            SubSeq(call.out, 1, k) =
                Slice(BlockWithRounds(variant, st, dm.quot, n), dm.rem, k)

\* the squeeze round counts of the parameter table
TableRounds(v) == CASE v = "ascon" -> 12 [] v = "keccak" -> 12 [] v = "chacha" -> 20
\* the round counts of permute_r, p1600(st, 12) and 0..12 / 2 double rounds
SqueezeRounds(v) == CASE v = "ascon" -> 8 [] v = "keccak" -> 12 [] v = "chacha" -> 12

\* C14: each block computation runs the permutation for 8 rounds in ascon
\* (the first 8 round constants), 12 rounds in keccak and 12 rounds
\* (6 double rounds) in chacha.
C14_SqueezeRounds ==
    (FillReturned /\ CallUsedBlocks) => FirstBlockHasRounds(SqueezeRounds(variant))

\* C14 as stated: 12 rounds in ascon, 12 rounds in keccak and 20 rounds
\* (10 double rounds) in chacha.
C14_AsStated ==
    (FillReturned /\ CallUsedBlocks) => FirstBlockHasRounds(TableRounds(variant))

\* a chacha fill of a range that lies inside one block
C14_Witness ==
    /\ FillReturned
    /\ CallUsedBlocks
    /\ variant = "chacha"
    /\ call.start_offset = U64(10)
    /\ Len(call.pre) = 5

(***************************************************************************)
(* Counter injection                                                       *)
(***************************************************************************)
\* the block indices the index i is compared with: the other indices of the
\* call, i without its high 32 bits, i with bit 32 or bit 63 flipped, and
\* the neighbours of 0
Rivals(i) ==
    {call.blocks[n] : n \in DOMAIN call.blocks}
        \cup {LowHalf(i), Xor64(i, {32}), Xor64(i, {63}), U64(0), U64(1)}

\* the state handed to the permutation for block index i is the instance
\* with the index in its counter words and every other word unchanged
CounterOnly(v, self, i) ==
    \A x \in {InjectCounter(v, self, i)} :
        /\ Len(x) = Len(self)
        /\ IF v = "chacha"
           THEN /\ x[13] = LowHalf(i)
                /\ x[14] = HighHalf(i)
                /\ \A w \in DOMAIN self \ {13, 14} : x[w] = self[w]
           ELSE /\ x[5] = Xor64(self[5], i)
                /\ \A w \in DOMAIN self \ {5} : x[w] = self[w]

\* C17: for every block index i a call used and every other block index j,
\* the states handed to the permutation differ, and each is the instance
\* with only its counter words changed (lane 4 XOR the index in ascon and
\* keccak; word 12 the low and word 13 the high 32 bits in chacha).
C17_CounterInjective ==
    CallUsedBlocks =>
        \A n \in DOMAIN call.blocks :
            \A i \in {call.blocks[n]} :
                /\ CounterOnly(variant, st, i)
                /\ \A j \in Rivals(i) \ {i} :
                      InjectCounter(variant, st, j) # InjectCounter(variant, st, i)

\* a chacha call whose first block index is 2^32 or more
C17_Witness ==
    /\ CallUsedBlocks
    /\ variant = "chacha"
    /\ HighHalf(call.blocks[1]) # {}
    /\ LowHalf(call.blocks[1]) # call.blocks[1]

(***************************************************************************)
(* Setup order, padding and domain separation                              *)
(***************************************************************************)
\* new has been called on an ascon or keccak instance
SetupDone == pc # "start" /\ variant \in {"ascon", "keccak"}

\* the steps end with the last absorption permutation followed by the key
EndsWithKey(steps) ==
    /\ steps[Len(steps)].op = "key"
    /\ steps[Len(steps) - 1].op = "permute"
    /\ \A i \in 2 .. Len(steps) - 1 : steps[i].op # "key"

\* C15: new XORs the key into the key lanes and then, with no permutation
\* in between, XORs the first context chunk into the state; the first
\* permutation call follows that chunk.  When new returns, the key was XORed
\* again after the last absorption permutation, and the instance is the
\* state these steps leave; otherwise new panicked before that step.
C15_SetupOrder ==
    SetupDone =>
        \A steps \in {NewSteps(variant, context)} :
            /\ steps[1].op = "key"
            /\ steps[2].op = "chunk"
            /\ steps[3].op = "permute"
            /\ (pc = "idle") => (EndsWithKey(steps) /\ st = RunSteps(variant, key, steps))
            /\ (pc = "panicked") => steps[Len(steps)].op = "panic"

\* C15 as stated: a permutation call follows the first key XOR, before any
\* chunk is XORed into the state, and the key is XORed again at the end.
C15_AsStated ==
    (SetupDone /\ pc = "idle") =>
        \A steps \in {NewSteps(variant, context)} :
            /\ steps[1].op = "key"
            /\ steps[2].op = "permute"
            /\ \A i \in 1 .. Len(steps) : steps[i].op = "chunk" => i > 2
            /\ EndsWithKey(steps)

\* new returned an ascon instance for a context of 12 bytes, absorbed in
\* two chunks
C15_Witness ==
    /\ pc = "idle"
    /\ variant = "ascon"
    /\ Len(context) = 12
    /\ st # NoState
    /\ Len(NewSteps(variant, context)) = 6

\* the chunk steps among the steps, in order
ChunkSteps(steps) == SelectSeq(steps, LAMBDA s : s.op = "chunk")

\* the steps have a last chunk, and it holds the rest of the context ctx,
\* then the marker, then zero bytes up to the end of the buf
PaddedFinalChunk(steps, ctx) ==
    \A chunks \in {ChunkSteps(steps)} :
        /\ chunks # << >>
        /\ \A c \in {chunks[Len(chunks)]} :
              /\ c.marker
              /\ c.len < Len(c.buf)
              /\ \A i \in 1 .. Len(c.buf) :
                    c.buf[i] = IF i <= c.len THEN ctx[Len(ctx) - c.len + i]
                               ELSE IF i = c.len + 1 THEN PadMarker ELSE 0

\* C16: new returns an instance exactly when the last chunk it XORed into
\* the state holds the rest of the context, one 0x80 byte right after it
\* and zero bytes up to the end of the chunk; for the other context lengths
\* new panics without having absorbed a padded chunk.
C16_PaddedWhereBuilt ==
    SetupDone => ((pc = "idle") <=> PaddedFinalChunk(NewSteps(variant, context), context))

\* C16 as stated: for every context length the final chunk new absorbs is
\* the rest of the context, a single 0x80 byte and zero bytes.
C16_AsStated ==
    SetupDone => PaddedFinalChunk(NewSteps(variant, context), context)

\* new was called on a keccak context that fills one 168-byte chunk exactly
\* and panicked
C16_Witness ==
    /\ pc = "panicked"
    /\ variant = "keccak"
    /\ Len(context) = 168
    /\ ~PaddedFinalChunk(NewSteps(variant, context), context)

\* the bufs new XORs into the state for the context ctx, in order
Chunks(v, ctx) ==
    Bind(ChunkSteps(NewSteps(v, ctx)), LAMBDA c : Tuple([i \in 1 .. Len(c) |-> c[i].buf]))

\* new returns an instance for the context ctx
Completes(v, ctx) ==
    Bind(NewSteps(v, ctx), LAMBDA s : s[Len(s)].op # "panic")

\* the context ctx with zero bytes, marker bytes, or both appended
Extensions(ctx) ==
    { ctx \o << 0 >>, ctx \o << PadMarker >>, ctx \o << 0, 0 >>, ctx \o << PadMarker, 0 >>,
      ctx \o << 0, PadMarker >> }

\* C18: the chunks new absorbed for its context differ, in number or in at
\* least one chunk, from the chunks of every other context for which new
\* completes: the contexts of other lengths and contents, and the context
\* extended by zero bytes or by a 0x80 byte.
C18_DomainSeparation ==
    (SetupDone /\ pc = "idle") =>
        \A mine \in {Chunks(variant, context)} :
            \A other \in (Contexts(variant) \cup Extensions(context)) \ {context} :
                Completes(variant, other) => Chunks(variant, other) # mine

\* new returned an ascon instance for seven zero bytes; the same context
\* with one more zero byte is one for which new completes
C18_Witness ==
    /\ pc = "idle"
    /\ variant = "ascon"
    /\ context = Blank(7)
    /\ Completes(variant, context \o << 0 >>)
    /\ Completes(variant, context \o << PadMarker >>)

====
